---- MODULE Spec2Model ----
(***************************************************************************)
(* Model of the ingestion store (attempts, practice sessions, question     *)
(* events) and of the admin login throttle of app/main.py.                 *)
(*                                                                         *)
(* Every handler is an `async def` without an await in its body, so inside *)
(* one server process a handler runs to its return before the event loop   *)
(* starts another one: a process serves one request at a time.  Several    *)
(* server processes share the database, so the SQL statements of handlers  *)
(* in different processes interleave; the throttle map _login_attempts is  *)
(* a module global and is private to its process.                          *)
(***************************************************************************)
EXTENDS Integers, Sequences, FiniteSets, TLC

\* ---------------------------------------------------------------- bounds
NumProcs == 2
MaxRequests == 3
MaxTicks == 3
NumThreads == 2

\* ------------------------------------------------------ program constants
LOGIN_WINDOW_SECONDS == 15 * 60
LOGIN_BLOCK_SECONDS == 15 * 60
LOGIN_MAX_FAILURES == 8

\* ------------------------------------------------------------ value sets
\* SQL NULL / Python None, and a present value
NULL == <<>>
Some(v) == <<v>>

\* server processes sharing the database
Procs == 1..NumProcs

\* threads of server process 1 that call the throttle functions, and a
\* thread that is in no call
Threads == 1..NumThreads
Idle == [at |-> "idle", m |-> <<>>, now |-> 0, entry |-> <<>>]

\* AttemptIn: client_attempt_id is Optional[str] (the empty string passes
\* validation), session_id stands for the remaining columns of the row
AttemptKeys == {NULL, Some(""), Some("X")}
AttemptIn == [client_attempt_id : AttemptKeys, session_id : {1, 2}]

\* MRQuestionIn
DeviceIds == {"d1", "d2"}
QuestionKeys == {NULL, Some("Q1")}
MRQuestionIn == [device_id : DeviceIds, client_session_id : {1, 2},
                 client_attempt_id : QuestionKeys]

\* MRSessionStartIn: every optional field occurs absent and with two values
SessionIds == {<<"d1", 1>>, <<"d1", 2>>, <<"d2", 1>>}
StartFields ==
    { [mode |-> NULL, difficulty |-> NULL, count_target |-> NULL,
       started_at_ms |-> NULL],
      [mode |-> Some("add"), difficulty |-> NULL, count_target |-> Some(10),
       started_at_ms |-> NULL],
      [mode |-> NULL, difficulty |-> Some("hard"), count_target |-> NULL,
       started_at_ms |-> Some(10)],
      [mode |-> Some("mul"), difficulty |-> Some("easy"), count_target |-> Some(20),
       started_at_ms |-> Some(30)],
      [mode |-> NULL, difficulty |-> NULL, count_target |-> NULL,
       started_at_ms |-> Some(20)] }
MRSessionStartIn ==
    { [device_id |-> k[1], client_session_id |-> k[2], mode |-> f.mode,
       difficulty |-> f.difficulty, count_target |-> f.count_target,
       started_at_ms |-> f.started_at_ms] : k \in SessionIds, f \in StartFields }

\* MRSessionEndIn
EndFields ==
    { [ended_at_ms |-> NULL, attempted |-> NULL, correct |-> NULL,
       avg_ms |-> NULL, duration_s |-> NULL],
      [ended_at_ms |-> Some(40), attempted |-> Some(5), correct |-> Some(4),
       avg_ms |-> Some(700), duration_s |-> Some(60)],
      [ended_at_ms |-> Some(50), attempted |-> NULL, correct |-> Some(3),
       avg_ms |-> NULL, duration_s |-> Some(90)] }
MRSessionEndIn ==
    { [device_id |-> k[1], client_session_id |-> k[2],
       ended_at_ms |-> f.ended_at_ms, attempted |-> f.attempted,
       correct |-> f.correct, avg_ms |-> f.avg_ms, duration_s |-> f.duration_s]
      : k \in SessionIds, f \in EndFields }

\* POST /admin/login: the caller's address, and whether the submitted
\* username and password are the configured ones
LoginKeys == {"1.2.3.4", "5.6.7.8"}
LoginIn == [client_ip : LoginKeys, is_valid : BOOLEAN]

\* os.getenv: the environment the servers are started with; a variable that
\* is not set reads None, one set to the empty string reads ""
Deployed ==
    [SESSION_SECRET_KEY |-> Some("s3cret"), ADMIN_USERNAME |-> Some("admin"),
     INGEST_API_KEY |-> Some("K")]
Envs ==
    { Deployed,
      [Deployed EXCEPT !.SESSION_SECRET_KEY = NULL],
      [Deployed EXCEPT !.ADMIN_USERNAME = Some("")],
      [Deployed EXCEPT !.INGEST_API_KEY = NULL] }

\* time.time() when the servers start, and the grain of the clock
StartTime == 2 * LOGIN_WINDOW_SECONDS
TimeStep == LOGIN_WINDOW_SECONDS \div 2

\* the throttle record that n wrong logins at time t leave for an address,
\* and what process 1 holds for 1.2.3.4 when the run starts: nothing, or the
\* record of 6, 7 or 8 wrong logins received in the second before
Failed(n, t) ==
    [fails |-> [i \in 1..n |-> t],
     blocked_until |-> IF n >= LOGIN_MAX_FAILURES THEN t + LOGIN_BLOCK_SECONDS ELSE 0]
StartRecords ==
    {NULL} \cup {Failed(n, StartTime) : n \in LOGIN_MAX_FAILURES - 2 .. LOGIN_MAX_FAILURES}

\* Python truthiness of an Optional[str]: None and "" are falsy
TruthyAlways(s) == TRUE
Truthy(s) == s # NULL /\ s # Some("")

VARIABLES
    now,           \* time.time()
    _login_attempts, \* per process: client_ip -> {"fails", "blocked_until"}
    popped,        \* history: per process, the throttle record that the
                   \* successful login being answered has removed, or NULL
    _login_attempts_lock, \* the thread of process 1 inside `with
                   \* _login_attempts_lock:`, or NULL
    threads,       \* per thread of process 1: the throttle call it is in
    uq,            \* the schema declares the dedup uniqueness constraints
    env,           \* os.environ of the server processes
    held,          \* client: the admin_session cookie somebody has kept from
                   \* the response of a successful login, or NULL
    loggedout,     \* history: POST /admin/logout was served after the login
                   \* that handed out the cookie in held
    attempts,      \* committed rows of table attempts
    attempt_seq,   \* id sequence of table attempts
    events,        \* committed rows of table mr_question_events
    event_seq,     \* id sequence of table mr_question_events
    sessions,      \* committed rows of table mr_sessions
    supplied,      \* history: per session and start field, the last value
                   \* other than NULL that a session-start request carried
    replaced,      \* history: per session, the end-of-session summary that
                   \* the last session-end request found stored
    pc,            \* per process: position in the handler it is running
    req,           \* per process: payload of the request it is serving
    txn,           \* per process: row inserted by its open transaction, or NULL
    resp,          \* per process: the response being returned, or NULL
    nreq,          \* number of requests accepted so far
    created        \* history: [table, scope, key, id] of every ok response

vars == <<uq, env, _login_attempts_lock, threads, held, loggedout, now, _login_attempts, popped, attempts, attempt_seq, events, event_seq, sessions, supplied, replaced, pc,
          req, txn, resp, nreq, created>>

clientVars == <<held, loggedout>>

threadVars == <<_login_attempts_lock, threads>>

throttleVars == <<now, _login_attempts, popped>>

dbVars == <<attempts, attempt_seq, events, event_seq, sessions, supplied, replaced>>

Response(op, status, id) == [op |-> op, status |-> status, id |-> id]

Init ==
    /\ now = StartTime
    /\ _login_attempts \in
         { [p \in Procs |-> [ip \in LoginKeys |->
              IF p = 1 /\ ip = "1.2.3.4" THEN entry ELSE NULL]]
           : entry \in StartRecords }
    /\ popped = [p \in Procs |-> NULL]
    /\ _login_attempts_lock = NULL
    /\ threads = [h \in Threads |-> Idle]
    /\ uq \in BOOLEAN
    /\ env \in Envs
    /\ held = NULL
    /\ loggedout = FALSE
    /\ attempts = {}
    /\ attempt_seq = 0
    /\ events = {}
    /\ event_seq = 0
    /\ sessions = {}
    /\ supplied = [k \in SessionIds |->
                     [mode |-> NULL, difficulty |-> NULL, count_target |-> NULL,
                      started_at_ms |-> NULL]]
    /\ replaced = [k \in SessionIds |-> NULL]
    /\ pc = [p \in Procs |-> "idle"]
    /\ req = [p \in Procs |-> NULL]
    /\ txn = [p \in Procs |-> NULL]
    /\ resp = [p \in Procs |-> NULL]
    /\ nreq = 0
    /\ created = {}

\* str values that hold a character outside ASCII ("K_e9" stands for "K\xe9")
NonAscii == {"K_e9"}

\* secrets.compare_digest(a, b): raises TypeError unless both are str (None
\* is not) and both are ASCII, and otherwise tells whether they are equal
compare_digest(a, b) ==
    IF a = NULL \/ b = NULL THEN "TypeError"
    ELSE IF a[1] \in NonAscii \/ b[1] \in NonAscii THEN "TypeError"
    ELSE IF a = b THEN "True" ELSE "False"

\* the X-API-Key header of a request: missing, empty, the configured key,
\* another key, and one with a byte above 0x7f (headers are decoded as latin-1)
ApiKeys == {NULL, Some(""), Some("K"), Some("wrong"), Some("K_e9")}

\* require_ingest_api_key(x_api_key): 200 when it returns True, 401 for the
\* HTTPException, 500 when secrets.compare_digest raises TypeError
require_ingest_api_key(x_api_key) ==
    LET expected == env.INGEST_API_KEY IN
    IF ~Truthy(expected) \/ ~Truthy(x_api_key) THEN 401
    ELSE LET same == compare_digest(x_api_key, expected) IN
         IF same = "True" THEN 200
         ELSE IF same = "False" THEN 401
         ELSE 500

\* the endpoints behind Depends(require_ingest_api_key)
IngestOps == {"attempt", "session_start", "session_end", "question"}

\* the event loop of process p starts the handler of the next request, whose
\* key has passed require_ingest_api_key
Accept(p, m) ==
    /\ pc[p] = "idle"
    /\ \E x_api_key \in ApiKeys : require_ingest_api_key(x_api_key) = 200
    /\ nreq < MaxRequests
    /\ nreq' = nreq + 1
    /\ req' = [req EXCEPT ![p] = m]

\* return <response> (the finally clause still runs)
Return(p, r) ==
    /\ pc' = [pc EXCEPT ![p] = "close"]
    /\ resp' = [resp EXCEPT ![p] = r]

\* finally: db.close(); the response goes out and the process is free again
close(p) ==
    /\ pc[p] = "close"
    /\ pc' = [pc EXCEPT ![p] = "idle"]
    /\ req' = [req EXCEPT ![p] = NULL]
    /\ resp' = [resp EXCEPT ![p] = NULL]
    /\ popped' = [popped EXCEPT ![p] = NULL]
    /\ UNCHANGED <<uq, env, threadVars, clientVars, now, _login_attempts, dbVars, txn, nreq, created>>

\* a request whose key does not pass: the dependency raises, the handler of
\* the endpoint is not called
ingest_rejected(p, op, x_api_key) ==
    /\ pc[p] = "idle"
    /\ nreq < MaxRequests
    /\ nreq' = nreq + 1
    /\ require_ingest_api_key(x_api_key) # 200
    /\ req' = [req EXCEPT ![p] = [x_api_key |-> x_api_key]]
    /\ Return(p, Response(op, require_ingest_api_key(x_api_key), NULL))
    /\ UNCHANGED <<uq, env, threadVars, clientVars, throttleVars, dbVars, txn, created>>

\* the row that the open transaction of a process other than p has inserted
\* with the given statement and not yet committed
Uncommitted(p, at) == {txn[q] : q \in {v \in Procs \ {p} : pc[v] = at}}

\* ------------------------------------------------- POST /api/v1/attempts
\* SELECT id FROM attempts WHERE client_attempt_id = :client_attempt_id
AttemptMatchesAny(rows, key) == rows
AttemptMatchesNone(rows, key) == {}
AttemptMatches(rows, key) == {r \in rows : r.client_attempt_id = key}

\* the uniqueness constraint on attempts.client_attempt_id (NULLs never clash)
AttemptClash(rows, key) ==
    uq /\ key # NULL /\ \E r \in rows : r.client_attempt_id = key

\* the request arrives;
\* if payload.client_attempt_id: existing = SELECT ... LIMIT 1
create_attempt_select(p, m) ==
    /\ Accept(p, m)
    /\ IF Truthy(m.client_attempt_id)
             /\ AttemptMatches(attempts, m.client_attempt_id) # {}
       THEN \E existing \in AttemptMatches(attempts, m.client_attempt_id) :
              Return(p, Response("attempt", "duplicate", Some(existing.id)))
       ELSE /\ pc' = [pc EXCEPT ![p] = "attempt_insert"]
            /\ UNCHANGED resp
    /\ UNCHANGED <<uq, env, threadVars, clientVars, throttleVars, dbVars, txn, created>>

\* INSERT INTO attempts ... RETURNING id
create_attempt_insert(p) ==
    /\ pc[p] = "attempt_insert"
    /\ ~AttemptClash(Uncommitted(p, "attempt_commit"), req[p].client_attempt_id)
    /\ attempt_seq' = attempt_seq + 1
    /\ IF AttemptClash(attempts, req[p].client_attempt_id)
       THEN \* IntegrityError: except -> db.rollback() -> raise
            /\ Return(p, Response("attempt", "error", NULL))
            /\ UNCHANGED txn
       ELSE /\ txn' = [txn EXCEPT ![p] =
                         [id |-> attempt_seq + 1,
                          client_attempt_id |-> req[p].client_attempt_id,
                          session_id |-> req[p].session_id]]
            /\ pc' = [pc EXCEPT ![p] = "attempt_commit"]
            /\ UNCHANGED resp
    /\ UNCHANGED <<uq, env, threadVars, clientVars, throttleVars, attempts, events, event_seq, sessions, supplied, replaced, req, nreq, created>>

\* db.commit(); return {"status": "ok", "attempt_id": inserted.id}
create_attempt_commit(p) ==
    /\ pc[p] = "attempt_commit"
    /\ attempts' = attempts \cup {txn[p]}
    /\ txn' = [txn EXCEPT ![p] = NULL]
    /\ Return(p, Response("attempt", "ok", Some(txn[p].id)))
    /\ created' = created \cup
          {[table |-> "attempts", scope |-> NULL,
            key |-> req[p].client_attempt_id, id |-> txn[p].id]}
    /\ UNCHANGED <<uq, env, threadVars, clientVars, throttleVars, attempt_seq, events, event_seq, sessions, supplied, replaced, req, nreq>>

\* ----------------------------------------------- POST /api/v1/mr/question
\* SELECT id FROM mr_question_events
\* WHERE device_id = :device_id AND client_attempt_id = :client_attempt_id
QuestionMatchesAnyDevice(rows, m) ==
    {r \in rows : r.client_attempt_id = m.client_attempt_id}
QuestionMatchesSession(rows, m) ==
    {r \in rows : /\ r.device_id = m.device_id
                  /\ r.client_attempt_id = m.client_attempt_id
                  /\ r.client_session_id = m.client_session_id}
QuestionMatches(rows, m) ==
    {r \in rows : /\ r.device_id = m.device_id
                  /\ r.client_attempt_id = m.client_attempt_id}

\* the uniqueness constraint on mr_question_events (device_id, client_attempt_id)
QuestionClash(rows, m) ==
    /\ uq
    /\ m.client_attempt_id # NULL
    /\ \E r \in rows : /\ r.device_id = m.device_id
                       /\ r.client_attempt_id = m.client_attempt_id

\* the request arrives;
\* if payload.client_attempt_id: existing = SELECT ... LIMIT 1
mr_question_select(p, m) ==
    /\ Accept(p, m)
    /\ IF Truthy(m.client_attempt_id) /\ QuestionMatches(events, m) # {}
       THEN Return(p, Response("question", "duplicate", NULL))
       ELSE /\ pc' = [pc EXCEPT ![p] = "question_insert"]
            /\ UNCHANGED resp
    /\ UNCHANGED <<uq, env, threadVars, clientVars, throttleVars, dbVars, txn, created>>

\* INSERT INTO mr_question_events ... RETURNING id
mr_question_insert(p) ==
    /\ pc[p] = "question_insert"
    /\ ~QuestionClash(Uncommitted(p, "question_commit"), req[p])
    /\ event_seq' = event_seq + 1
    /\ IF QuestionClash(events, req[p])
       THEN \* IntegrityError: except -> db.rollback() -> raise
            /\ Return(p, Response("question", "error", NULL))
            /\ UNCHANGED txn
       ELSE /\ txn' = [txn EXCEPT ![p] =
                         [id |-> event_seq + 1,
                          device_id |-> req[p].device_id,
                          client_session_id |-> req[p].client_session_id,
                          client_attempt_id |-> req[p].client_attempt_id]]
            /\ pc' = [pc EXCEPT ![p] = "question_commit"]
            /\ UNCHANGED resp
    /\ UNCHANGED <<uq, env, threadVars, clientVars, throttleVars, attempts, attempt_seq, events, sessions, supplied, replaced, req, nreq, created>>

\* db.commit(); return {"status": "ok", "id": inserted.id}
mr_question_commit(p) ==
    /\ pc[p] = "question_commit"
    /\ events' = events \cup {txn[p]}
    /\ txn' = [txn EXCEPT ![p] = NULL]
    /\ Return(p, Response("question", "ok", Some(txn[p].id)))
    /\ created' = created \cup
          {[table |-> "mr_question_events", scope |-> Some(req[p].device_id),
            key |-> req[p].client_attempt_id, id |-> txn[p].id]}
    /\ UNCHANGED <<uq, env, threadVars, clientVars, throttleVars, attempts, attempt_seq, event_seq, sessions, supplied, replaced, req, nreq>>

\* ------------------------------------------ POST /api/v1/mr/session/start
SessionRows(rows, m) ==
    {r \in rows : /\ r.device_id = m.device_id
                  /\ r.client_session_id = m.client_session_id}

\* COALESCE(EXCLUDED.x, mr_sessions.x)
CoalesceIncoming(incoming, stored) == incoming
COALESCE(incoming, stored) == IF incoming # NULL THEN incoming ELSE stored

\* the row INSERT INTO mr_sessions (...) VALUES (...) creates; the columns the
\* statement does not name are NULL
InsertedSession(m) ==
    [device_id |-> m.device_id, client_session_id |-> m.client_session_id,
     mode |-> m.mode, difficulty |-> m.difficulty,
     count_target |-> m.count_target, started_at_ms |-> m.started_at_ms,
     ended_at_ms |-> NULL, attempted |-> NULL, correct |-> NULL,
     avg_ms |-> NULL, duration_s |-> NULL]

\* ON CONFLICT (device_id, client_session_id) DO UPDATE SET ...
ConflictReplace(r, m) == InsertedSession(m)
ConflictUpdate(r, m) ==
    [r EXCEPT !.mode = COALESCE(m.mode, r.mode),
              !.difficulty = COALESCE(m.difficulty, r.difficulty),
              !.count_target = COALESCE(m.count_target, r.count_target),
              !.started_at_ms = COALESCE(m.started_at_ms, r.started_at_ms)]

\* the table after the upsert statement of mr_session_start
StartUpsert(rows, m) ==
    IF SessionRows(rows, m) = {}
    THEN rows \cup {InsertedSession(m)}
    ELSE {IF r \in SessionRows(rows, m) THEN ConflictUpdate(r, m) ELSE r : r \in rows}

\* a write of another open transaction holds the lock on the session's row
\* (or on its index entry)
SessionLockedNever(p, m) == FALSE
SessionLocked(p, m) ==
    \E q \in Procs \ {p} :
       /\ pc[q] \in {"session_start_commit", "session_end_commit"}
       /\ SessionRows(txn[q].del \cup txn[q].add, m) # {}

\* what a statement changes, applied when its transaction commits
Delta(before, after) == [del |-> before \ after, add |-> after \ before]

\* the request arrives; db.execute(INSERT ... ON CONFLICT ... DO UPDATE ...)
mr_session_start_execute(p, m) ==
    /\ Accept(p, m)
    /\ ~SessionLocked(p, m)
    /\ txn' = [txn EXCEPT ![p] = Delta(sessions, StartUpsert(sessions, m))]
    /\ pc' = [pc EXCEPT ![p] = "session_start_commit"]
    /\ UNCHANGED <<uq, env, threadVars, clientVars, throttleVars, dbVars, resp, created>>

\* db.commit(); return {"status": "ok"}
mr_session_start_commit(p) ==
    /\ pc[p] = "session_start_commit"
    /\ sessions' = (sessions \ txn[p].del) \cup txn[p].add
    /\ supplied' =
         [supplied EXCEPT ![<<req[p].device_id, req[p].client_session_id>>] =
            [f \in DOMAIN @ |-> IF req[p][f] # NULL THEN req[p][f] ELSE @[f]]]
    /\ txn' = [txn EXCEPT ![p] = NULL]
    /\ Return(p, Response("session_start", "ok", NULL))
    /\ UNCHANGED <<uq, env, threadVars, clientVars, throttleVars, attempts, attempt_seq, events, event_seq, replaced, req, nreq,
                   created>>

\* -------------------------------------------- POST /api/v1/mr/session/end
\* UPDATE mr_sessions SET ended_at_ms = :ended_at_ms, ... WHERE device_id = ...
EndSetMerge(r, m) ==
    [r EXCEPT !.ended_at_ms = COALESCE(m.ended_at_ms, r.ended_at_ms),
              !.attempted = COALESCE(m.attempted, r.attempted),
              !.correct = COALESCE(m.correct, r.correct),
              !.avg_ms = COALESCE(m.avg_ms, r.avg_ms),
              !.duration_s = COALESCE(m.duration_s, r.duration_s)]

EndSet(r, m) ==
    [r EXCEPT !.ended_at_ms = m.ended_at_ms,
              !.attempted = m.attempted,
              !.correct = m.correct,
              !.avg_ms = m.avg_ms,
              !.duration_s = m.duration_s]

\* the end-of-session summary columns of a row or of a request
Summary(r) ==
    [ended_at_ms |-> r.ended_at_ms, attempted |-> r.attempted,
     correct |-> r.correct, avg_ms |-> r.avg_ms, duration_s |-> r.duration_s]

\* the table after the UPDATE statement of mr_session_end
EndUpsert(rows, m) ==
    IF SessionRows(rows, m) = {}
    THEN rows \cup {EndSet([device_id |-> m.device_id,
                            client_session_id |-> m.client_session_id,
                            mode |-> NULL, difficulty |-> NULL,
                            count_target |-> NULL, started_at_ms |-> NULL,
                            ended_at_ms |-> NULL, attempted |-> NULL,
                            correct |-> NULL, avg_ms |-> NULL,
                            duration_s |-> NULL], m)}
    ELSE {IF r \in SessionRows(rows, m) THEN EndSet(r, m) ELSE r : r \in rows}
EndUpdate(rows, m) ==
    {IF r \in SessionRows(rows, m) THEN EndSet(r, m) ELSE r : r \in rows}

\* the request arrives; db.execute(UPDATE mr_sessions SET ... WHERE ...)
mr_session_end_execute(p, m) ==
    /\ Accept(p, m)
    /\ SessionRows(sessions, m) # {} => ~SessionLocked(p, m)
    /\ txn' = [txn EXCEPT ![p] = Delta(sessions, EndUpdate(sessions, m))]
    /\ pc' = [pc EXCEPT ![p] = "session_end_commit"]
    /\ UNCHANGED <<uq, env, threadVars, clientVars, throttleVars, dbVars, resp, created>>

\* db.commit(); return {"status": "ok"}
mr_session_end_commit(p) ==
    /\ pc[p] = "session_end_commit"
    /\ sessions' = (sessions \ txn[p].del) \cup txn[p].add
    /\ txn' = [txn EXCEPT ![p] = NULL]
    /\ replaced' =
         IF SessionRows(sessions, req[p]) = {}
         THEN replaced
         ELSE [replaced EXCEPT ![<<req[p].device_id, req[p].client_session_id>>] =
                 Summary(CHOOSE r \in SessionRows(sessions, req[p]) : TRUE)]
    /\ Return(p, Response("session_end", "ok", NULL))
    /\ UNCHANGED <<uq, env, threadVars, clientVars, throttleVars, attempts, attempt_seq, events, event_seq, supplied, req, nreq,
                   created>>

SessionStep(p) ==
    \/ \E m \in MRSessionStartIn : mr_session_start_execute(p, m)
    \/ mr_session_start_commit(p)
    \/ \E m \in MRSessionEndIn : mr_session_end_execute(p, m)
    \/ mr_session_end_commit(p)
    \/ close(p)

AttemptStep(p) ==
    \/ \E m \in AttemptIn : create_attempt_select(p, m)
    \/ create_attempt_insert(p)
    \/ create_attempt_commit(p)
    \/ close(p)

QuestionStep(p) ==
    \/ \E m \in MRQuestionIn : mr_question_select(p, m)
    \/ mr_question_insert(p)
    \/ mr_question_commit(p)
    \/ close(p)

\* ------------------------------------------------- persistence failures
\* the endpoint whose handler is at position at
OpAt(at) ==
    CASE at \in {"attempt_insert", "attempt_commit"} -> "attempt"
      [] at \in {"question_insert", "question_commit"} -> "question"
      [] at = "session_start_commit" -> "session_start"
      [] at = "session_end_commit" -> "session_end"

\* the tables
Tables == [attempts |-> attempts, events |-> events, sessions |-> sessions]
RollbackKeepsRow(p) ==
    CASE pc[p] = "attempt_commit" -> [Tables EXCEPT !.attempts = @ \cup {txn[p]}]
      [] pc[p] = "question_commit" -> [Tables EXCEPT !.events = @ \cup {txn[p]}]
      [] pc[p] \in {"session_start_commit", "session_end_commit"}
           -> [Tables EXCEPT !.sessions = (@ \ txn[p].del) \cup txn[p].add]
      [] OTHER -> Tables
\* the tables after db.rollback(): what the transaction wrote is discarded
Rollback(p) == Tables

\* except Exception: db.rollback(); raise -- the first statement of a handler
\* (the SELECT, or the statement of a session message) fails
first_statement_fails(p, op, m) ==
    /\ Accept(p, m)
    /\ Return(p, Response(op, "error", NULL))
    /\ attempts' = Rollback(p).attempts
    /\ events' = Rollback(p).events
    /\ sessions' = Rollback(p).sessions
    /\ UNCHANGED <<uq, env, threadVars, clientVars, throttleVars, attempt_seq, event_seq,
                   supplied, replaced, txn, created>>

\* except Exception: db.rollback(); raise -- the INSERT or the commit that the
\* handler of process p is about to run fails
statement_fails(p) ==
    /\ pc[p] \in {"attempt_insert", "attempt_commit", "question_insert",
                  "question_commit", "session_start_commit", "session_end_commit"}
    /\ attempts' = Rollback(p).attempts
    /\ events' = Rollback(p).events
    /\ sessions' = Rollback(p).sessions
    /\ txn' = [txn EXCEPT ![p] = NULL]
    /\ Return(p, Response(OpAt(pc[p]), "error", NULL))
    /\ UNCHANGED <<uq, env, threadVars, clientVars, throttleVars, attempt_seq, event_seq,
                   supplied, replaced, req, nreq, created>>

FaultStep(p) ==
    \/ \E m \in AttemptIn : first_statement_fails(p, "attempt", m)
    \/ \E m \in MRQuestionIn : first_statement_fails(p, "question", m)
    \/ \E m \in MRSessionStartIn : first_statement_fails(p, "session_start", m)
    \/ \E m \in MRSessionEndIn : first_statement_fails(p, "session_end", m)
    \/ statement_fails(p)

\* --------------------------------------------------- admin session token
\* serializer.loads(token, max_age=60 * 60 * 24 * 7)
max_age == 60 * 60 * 24 * 7

\* URLSafeTimedSerializer(secret_key, salt="admin-session"), None without key
_admin_session_serializer ==
    IF ~Truthy(env.SESSION_SECRET_KEY) THEN NULL
    ELSE Some([secret_key |-> env.SESSION_SECRET_KEY[1], salt |-> "admin-session"])

\* the HMAC of payload and timestamp under the key derived from secret and salt
Signature(serializer, payload, timestamp) ==
    <<serializer.secret_key, serializer.salt, payload, timestamp>>

\* serializer.dumps(obj) at time t: payload, int(time.time()) and signature
dumps(serializer, payload, t) ==
    [payload |-> payload, timestamp |-> t,
     sig |-> Signature(serializer, payload, t)]

\* serializer.loads(token, max_age) at time t: the payload, or the exception
loads(serializer, token, limit, t) ==
    IF token.sig # Signature(serializer, token.payload, token.timestamp)
    THEN [error |-> "BadSignature", payload |-> NULL]
    ELSE IF t - token.timestamp > limit
         THEN [error |-> "SignatureExpired", payload |-> NULL]
         ELSE [error |-> "", payload |-> token.payload]

\* create_admin_session_token(username) at time t; {"u": username} is <<"u", username>>
create_admin_session_token(username, t) ==
    IF _admin_session_serializer = NULL THEN NULL
    ELSE Some(dumps(_admin_session_serializer[1], <<"u", username>>, t))

\* verify_admin_session_token(token) at time t: "True", "False" or the
\* exception it lets through
VerifyTellsExpired(token, t) ==
    LET expected_username == env.ADMIN_USERNAME IN
    IF _admin_session_serializer = NULL \/ ~Truthy(expected_username)
    THEN "False"
    ELSE LET loaded == loads(_admin_session_serializer[1], token, max_age, t)
             username == IF Len(loaded.payload) = 2 /\ loaded.payload[1] = "u"
                         THEN Some(loaded.payload[2]) ELSE NULL IN
         IF loaded.error = "SignatureExpired" THEN "SignatureExpired"
         ELSE IF loaded.error # "" THEN "False"
         ELSE IF username = NULL THEN "False"
         ELSE compare_digest(username, expected_username)
VerifyMonthOld(token, t) ==
    LET expected_username == env.ADMIN_USERNAME IN
    IF _admin_session_serializer = NULL \/ ~Truthy(expected_username)
    THEN "False"
    ELSE LET loaded == loads(_admin_session_serializer[1], token,
                             60 * 60 * 24 * 30, t)
             username == IF Len(loaded.payload) = 2 /\ loaded.payload[1] = "u"
                         THEN Some(loaded.payload[2]) ELSE NULL IN
         IF loaded.error # "" THEN "False"
         ELSE IF username = NULL THEN "False"
         ELSE compare_digest(username, expected_username)
VerifyOtherSalt(token, t) ==
    LET expected_username == env.ADMIN_USERNAME IN
    IF _admin_session_serializer = NULL \/ ~Truthy(expected_username)
    THEN "False"
    ELSE LET loaded == loads([_admin_session_serializer[1] EXCEPT !.salt = "session"],
                             token, max_age, t)
             username == IF Len(loaded.payload) = 2 /\ loaded.payload[1] = "u"
                         THEN Some(loaded.payload[2]) ELSE NULL IN
         IF loaded.error # "" THEN "False"
         ELSE IF username = NULL THEN "False"
         ELSE compare_digest(username, expected_username)
verify_admin_session_token(token, t) ==
    LET expected_username == env.ADMIN_USERNAME IN
    IF _admin_session_serializer = NULL \/ ~Truthy(expected_username)
    THEN "False"
    ELSE LET loaded == loads(_admin_session_serializer[1], token, max_age, t)
             username == IF Len(loaded.payload) = 2 /\ loaded.payload[1] = "u"
                         THEN Some(loaded.payload[2]) ELSE NULL IN
         IF loaded.error # "" THEN "False"
         ELSE IF username = NULL THEN "False"
         ELSE compare_digest(username, expected_username)

\* require_admin(request) at time t, cookie being the admin_session cookie of
\* the request: 200 when it passes, the redirect to /admin/login otherwise
RequireAdminRevoked(cookie, t) ==
    IF cookie = NULL \/ loggedout THEN 303
    ELSE LET verified == verify_admin_session_token(cookie[1], t) IN
         IF verified = "True" THEN 200
         ELSE IF verified = "False" THEN 303
         ELSE 500
require_admin(cookie, t) ==
    IF cookie = NULL THEN 303
    ELSE LET verified == verify_admin_session_token(cookie[1], t) IN
         IF verified = "True" THEN 200
         ELSE IF verified = "False" THEN 303
         ELSE 500

\* ------------------------------------------ GET /api/v1/mr/sessions/recent
\* the query parameters: device_id (absent, empty, a device) and limit
RecentIn == [device_id : {NULL, Some(""), Some("d1"), Some("d2")},
             limit : {0, 1, 2, 200, 201}]

\* SELECT s.device_id, ..., COUNT(q.id) AS events_logged FROM mr_sessions s
\* LEFT JOIN mr_question_events q ON ... [WHERE s.device_id = :device_id]
\* GROUP BY ...
RecentRows(device_id) ==
    { [device_id |-> r.device_id, client_session_id |-> r.client_session_id,
       mode |-> r.mode, difficulty |-> r.difficulty,
       started_at_ms |-> r.started_at_ms, ended_at_ms |-> r.ended_at_ms,
       attempted |-> r.attempted, correct |-> r.correct, avg_ms |-> r.avg_ms,
       events_logged |->
          Cardinality({q \in events : /\ q.device_id = r.device_id
                                      /\ q.client_session_id = r.client_session_id})]
      : r \in {x \in sessions : Truthy(device_id) => x.device_id = device_id[1]} }

\* the sequences that list every row of a set once
Orderings(rows) ==
    {q \in [1..Cardinality(rows) -> rows] :
        \A i, j \in 1..Cardinality(rows) : i # j => q[i] # q[j]}

\* ORDER BY s.started_at_ms DESC allows a row with start a before one with
\* start b; the database decides where NULLs go (first on PostgreSQL, last on
\* SQLite)
AscBefore(a, b, nulls_first) ==
    IF a = NULL THEN nulls_first \/ b = NULL
    ELSE IF b = NULL THEN ~nulls_first
    ELSE a[1] <= b[1]
DescBefore(a, b, nulls_first) ==
    IF a = NULL THEN nulls_first \/ b = NULL
    ELSE IF b = NULL THEN ~nulls_first
    ELSE a[1] >= b[1]

\* the results the query may return: ORDER BY ... LIMIT :limit
RecentResults(device_id, limit) ==
    LET rows == RecentRows(device_id) IN
    { SubSeq(q, 1, IF limit < Len(q) THEN limit ELSE Len(q)) :
        q \in {o \in Orderings(rows) :
                 \E nulls_first \in BOOLEAN :
                    \A i, j \in 1..Len(o) :
                       i < j => DescBefore(o[i].started_at_ms, o[j].started_at_ms,
                                           nulls_first)} }

\* the cookie of an admin who has just logged in, and no cookie
AdminCookies ==
    {NULL} \cup IF _admin_session_serializer = NULL \/ ~Truthy(env.ADMIN_USERNAME)
                THEN {} ELSE {create_admin_session_token(env.ADMIN_USERNAME[1], now)}

\* mr_sessions_recent behind Depends(require_admin); limit: Query(ge=1, le=200)
mr_sessions_recent(p, cookie, m) ==
    /\ pc[p] = "idle"
    /\ req' = [req EXCEPT ![p] = [cookie |-> cookie, device_id |-> m.device_id,
                                  limit |-> m.limit]]
    /\ IF require_admin(cookie, now) # 200
       THEN Return(p, Response("recent", require_admin(cookie, now), NULL))
       ELSE IF m.limit < 1 \/ m.limit > 200
            THEN Return(p, Response("recent", 422, NULL))
            ELSE \E rows \in RecentResults(m.device_id, m.limit) :
                    Return(p, Response("recent", 200, rows))
    /\ UNCHANGED <<uq, env, threadVars, clientVars, throttleVars, dbVars, txn, nreq, created>>

\* ------------------------------------------------------ POST /admin/login
\* the outcome of _is_login_blocked(client_ip) at time t: the returned value
\* and the throttle map it leaves
IsLoginBlockedIgnored(map, client_ip, t) ==
    LET entry == map[client_ip] IN
    IF entry = NULL
    THEN [blocked |-> FALSE, map |-> map]
    ELSE IF entry.blocked_until > t
         THEN [blocked |-> FALSE, map |-> map]
         ELSE [blocked |-> FALSE,
               map |-> IF entry.blocked_until # 0
                       THEN [map EXCEPT ![client_ip].blocked_until = 0]
                       ELSE map]
IsLoginBlockedExtends(map, client_ip, t) ==
    LET entry == map[client_ip] IN
    IF entry = NULL
    THEN [blocked |-> FALSE, map |-> map]
    ELSE IF entry.blocked_until > t
         THEN [blocked |-> TRUE,
               map |-> [map EXCEPT ![client_ip].blocked_until = t + LOGIN_BLOCK_SECONDS]]
         ELSE [blocked |-> FALSE,
               map |-> IF entry.blocked_until # 0
                       THEN [map EXCEPT ![client_ip].blocked_until = 0]
                       ELSE map]
IsLoginBlockedAtDue(map, client_ip, t) ==
    LET entry == map[client_ip] IN
    IF entry = NULL
    THEN [blocked |-> FALSE, map |-> map]
    ELSE IF entry.blocked_until >= t
         THEN [blocked |-> TRUE, map |-> map]
         ELSE [blocked |-> FALSE,
               map |-> IF entry.blocked_until # 0
                       THEN [map EXCEPT ![client_ip].blocked_until = 0]
                       ELSE map]
_is_login_blocked(map, client_ip, t) ==
    LET entry == map[client_ip] IN
    IF entry = NULL
    THEN [blocked |-> FALSE, map |-> map]
    ELSE IF entry.blocked_until > t
         THEN [blocked |-> TRUE, map |-> map]
         ELSE [blocked |-> FALSE,
               map |-> IF entry.blocked_until # 0
                       THEN [map EXCEPT ![client_ip].blocked_until = 0]
                       ELSE map]

\* the throttle map after _record_login_failure(client_ip) at time t
RecordLoginFailureAbove(map, client_ip, t) ==
    LET cutoff == t - LOGIN_WINDOW_SECONDS
        entry == IF map[client_ip] = NULL
                 THEN [fails |-> <<>>, blocked_until |-> 0]
                 ELSE map[client_ip]
        fails == Append(SelectSeq(entry.fails, LAMBDA ts : ts >= cutoff), t)
    IN  [map EXCEPT ![client_ip] =
           [fails |-> fails,
            blocked_until |-> IF Len(fails) > LOGIN_MAX_FAILURES
                              THEN t + LOGIN_BLOCK_SECONDS
                              ELSE entry.blocked_until]]
_record_login_failure(map, client_ip, t) ==
    LET cutoff == t - LOGIN_WINDOW_SECONDS
        entry == IF map[client_ip] = NULL
                 THEN [fails |-> <<>>, blocked_until |-> 0]
                 ELSE map[client_ip]
        fails == Append(SelectSeq(entry.fails, LAMBDA ts : ts >= cutoff), t)
    IN  [map EXCEPT ![client_ip] =
           [fails |-> fails,
            blocked_until |-> IF Len(fails) >= LOGIN_MAX_FAILURES
                              THEN t + LOGIN_BLOCK_SECONDS
                              ELSE entry.blocked_until]]

\* the throttle map after _clear_login_failures(client_ip)
ClearLoginFailuresUnblock(map, client_ip) ==
    IF map[client_ip] = NULL THEN map
    ELSE [map EXCEPT ![client_ip].blocked_until = 0]
_clear_login_failures(map, client_ip) == [map EXCEPT ![client_ip] = NULL]

\* the request arrives; if _is_login_blocked(client_ip): raise HTTPException(429)
admin_login_post_blocked(p, m) ==
    /\ pc[p] = "idle"
    /\ req' = [req EXCEPT ![p] = m]
    /\ LET check == _is_login_blocked(_login_attempts[p], m.client_ip, now) IN
       /\ _login_attempts' = [_login_attempts EXCEPT ![p] = check.map]
       /\ IF check.blocked
          THEN Return(p, Response("login", 429, NULL))
          ELSE /\ pc' = [pc EXCEPT ![p] = "login_verify"]
               /\ UNCHANGED resp
    /\ UNCHANGED <<uq, env, threadVars, clientVars, now, popped, dbVars, txn, nreq, created>>

\* is_valid = ... secrets.compare_digest(...) and pwd_context.verify(...)
admin_login_post_verify(p) ==
    /\ pc[p] = "login_verify"
    /\ pc' = [pc EXCEPT ![p] =
                IF Truthy(env.ADMIN_USERNAME) /\ req[p].is_valid
                THEN "login_success" ELSE "login_failure"]
    /\ UNCHANGED <<uq, env, threadVars, clientVars, throttleVars, dbVars, req, txn, resp, nreq, created>>

\* if not is_valid: _record_login_failure(client_ip); return 401
admin_login_post_failure(p) ==
    /\ pc[p] = "login_failure"
    /\ _login_attempts' =
         [_login_attempts EXCEPT ![p] =
            _record_login_failure(@, req[p].client_ip, now)]
    /\ Return(p, Response("login", 401, NULL))
    /\ UNCHANGED <<uq, env, threadVars, clientVars, now, popped, dbVars, req, txn, nreq, created>>

\* _clear_login_failures(client_ip); token = create_admin_session_token(...);
\* without token 500, else 303 with the token in the admin_session cookie
admin_login_post_success(p) ==
    /\ pc[p] = "login_success"
    /\ _login_attempts' =
         [_login_attempts EXCEPT ![p] = _clear_login_failures(@, req[p].client_ip)]
    /\ popped' = [popped EXCEPT ![p] = _login_attempts[p][req[p].client_ip]]
    /\ LET token == create_admin_session_token(env.ADMIN_USERNAME[1], now) IN
       IF token = NULL
       THEN Return(p, Response("login", 500, NULL))
       ELSE Return(p, Response("login", 303, token))
    /\ UNCHANGED <<uq, env, threadVars, clientVars, now, dbVars, req, txn, nreq, created>>

\* time passes
Tick ==
    /\ now + TimeStep <= StartTime + MaxTicks * TimeStep
    /\ now' = now + TimeStep
    /\ UNCHANGED <<uq, env, threadVars, clientVars, _login_attempts, popped, dbVars, pc, req, txn, resp, nreq, created>>

\* ------------------------------------- the throttle functions under threads
\* The handlers of this application run on the event loop, one at a time; the
\* three throttle functions are plain functions guarded by a threading.Lock,
\* and here threads of process 1 call them, in the order admin_login_post
\* does, on the throttle map of that process.

\* with _login_attempts_lock: the thread enters when no thread is inside
AcquireUnlocked(h) == _login_attempts_lock' = Some(h)
acquire(h) == _login_attempts_lock = NULL /\ _login_attempts_lock' = Some(h)

\* the end of the with block
release(h) == _login_attempts_lock' = NULL

\* thread h moves on in its call; nothing outside the throttle changes
ThreadAt(h, at) == threads' = [threads EXCEPT ![h].at = at]
ThreadFrame ==
    UNCHANGED <<uq, env, clientVars, now, popped, dbVars, pc, req, txn, resp, created>>

\* _is_login_blocked(client_ip): now = time.time()
is_login_blocked_call(h, m) ==
    /\ threads[h].at = "idle"
    /\ nreq < MaxRequests
    /\ nreq' = nreq + 1
    /\ threads' = [threads EXCEPT ![h] =
                     [at |-> "blocked_lock", m |-> m, now |-> now, entry |-> NULL]]
    /\ UNCHANGED <<_login_attempts_lock, _login_attempts>>
    /\ ThreadFrame

\* with _login_attempts_lock:
is_login_blocked_lock(h) ==
    /\ threads[h].at = "blocked_lock"
    /\ acquire(h)
    /\ ThreadAt(h, "blocked_body")
    /\ UNCHANGED _login_attempts
    /\ UNCHANGED nreq
    /\ ThreadFrame

\* the body of the with block; on True the handler raises the 429
is_login_blocked_body(h) ==
    /\ threads[h].at = "blocked_body"
    /\ LET check == _is_login_blocked(_login_attempts[1], threads[h].m.client_ip,
                                      threads[h].now) IN
       /\ _login_attempts' = [_login_attempts EXCEPT ![1] = check.map]
       /\ IF check.blocked
          THEN threads' = [threads EXCEPT ![h] = Idle]
          ELSE ThreadAt(h, "verify")
    /\ release(h)
    /\ UNCHANGED nreq
    /\ ThreadFrame

\* is_valid = ...; _record_login_failure(client_ip): now = time.time(), or
\* _clear_login_failures(client_ip)
thread_verify(h) ==
    /\ threads[h].at = "verify"
    /\ threads' = [threads EXCEPT ![h].at =
                      IF Truthy(env.ADMIN_USERNAME) /\ threads[h].m.is_valid
                      THEN "clear_lock" ELSE "record_lock",
                                  ![h].now = now]
    /\ UNCHANGED <<_login_attempts_lock, _login_attempts>>
    /\ UNCHANGED nreq
    /\ ThreadFrame

\* with _login_attempts_lock:
record_login_failure_lock(h) ==
    /\ threads[h].at = "record_lock"
    /\ acquire(h)
    /\ ThreadAt(h, "record_read")
    /\ UNCHANGED _login_attempts
    /\ UNCHANGED nreq
    /\ ThreadFrame

\* entry = _login_attempts.setdefault(...); fails = [...]; fails.append(now)
record_login_failure_read(h) ==
    /\ threads[h].at = "record_read"
    /\ LET map == _login_attempts[1]
           client_ip == threads[h].m.client_ip IN
       /\ threads' = [threads EXCEPT ![h].at = "record_write",
                         ![h].entry =
                            _record_login_failure(map, client_ip, threads[h].now)[client_ip]]
       /\ _login_attempts' =
            IF map[client_ip] # NULL THEN _login_attempts
            ELSE [_login_attempts EXCEPT ![1][client_ip] =
                    [fails |-> <<>>, blocked_until |-> 0]]
    /\ UNCHANGED _login_attempts_lock
    /\ UNCHANGED nreq
    /\ ThreadFrame

\* entry["fails"] = fails; if len(fails) >= LOGIN_MAX_FAILURES:
\* entry["blocked_until"] = now + LOGIN_BLOCK_SECONDS; the with block ends
record_login_failure_write(h) ==
    /\ threads[h].at = "record_write"
    /\ _login_attempts' =
         [_login_attempts EXCEPT ![1][threads[h].m.client_ip] = threads[h].entry]
    /\ threads' = [threads EXCEPT ![h] = Idle]
    /\ release(h)
    /\ UNCHANGED nreq
    /\ ThreadFrame

\* with _login_attempts_lock:
clear_login_failures_lock(h) ==
    /\ threads[h].at = "clear_lock"
    /\ acquire(h)
    /\ ThreadAt(h, "clear_body")
    /\ UNCHANGED _login_attempts
    /\ UNCHANGED nreq
    /\ ThreadFrame

\* _login_attempts.pop(client_ip, None); the with block ends
clear_login_failures_body(h) ==
    /\ threads[h].at = "clear_body"
    /\ _login_attempts' =
         [_login_attempts EXCEPT ![1] =
            _clear_login_failures(@, threads[h].m.client_ip)]
    /\ threads' = [threads EXCEPT ![h] = Idle]
    /\ release(h)
    /\ UNCHANGED nreq
    /\ ThreadFrame

ThreadStep(h) ==
    \/ \E m \in {x \in LoginIn : x.client_ip = "1.2.3.4"} : is_login_blocked_call(h, m)
    \/ is_login_blocked_lock(h)
    \/ is_login_blocked_body(h)
    \/ thread_verify(h)
    \/ record_login_failure_lock(h)
    \/ record_login_failure_read(h)
    \/ record_login_failure_write(h)
    \/ clear_login_failures_lock(h)
    \/ clear_login_failures_body(h)

\* ----------------------------------------------------- POST /admin/logout
\* the response deletes the cookie at the client; the server keeps no state
admin_logout(p) ==
    /\ pc[p] = "idle"
    /\ req' = [req EXCEPT ![p] = [cookie |-> NULL]]
    /\ Return(p, Response("logout", 303, NULL))
    /\ loggedout' = (held # NULL)
    /\ UNCHANGED <<uq, env, threadVars, held, throttleVars, dbVars, txn, nreq, created>>

\* ------------------------------------------------------------- GET /admin
\* what a client without the secret can derive from a token it holds
Tampered(token, t) ==
    { [token EXCEPT !.sig = <<"guess", "admin-session", token.payload, token.timestamp>>],
      [token EXCEPT !.payload = <<"u", "bob">>],
      [token EXCEPT !.timestamp = t] }

\* tokens made at time t without a login: a string that is no token, one
\* signed with a guessed secret, and tokens the secret's holder signed for
\* another principal and for a payload that is no dict
Foreign(t) ==
    {[payload |-> NULL, timestamp |-> 0, sig |-> NULL],
     dumps([secret_key |-> "guess", salt |-> "admin-session"], <<"u", "admin">>, t)}
    \cup IF _admin_session_serializer = NULL THEN {}
         ELSE {dumps(_admin_session_serializer[1], <<"u", "bob">>, t),
               dumps(_admin_session_serializer[1], <<"admin">>, t)}

\* the admin_session cookie of a request: none, the kept one, or a made-up one
Cookies ==
    {NULL} \cup {Some(x) : x \in Foreign(now)}
           \cup IF held = NULL THEN {}
                ELSE {Some(held)} \cup {Some(x) : x \in Tampered(held, now)}

\* admin_home behind Depends(require_admin)
admin_home(p, cookie) ==
    /\ pc[p] = "idle"
    /\ req' = [req EXCEPT ![p] = [cookie |-> cookie]]
    /\ Return(p, Response("admin", require_admin(cookie, now), NULL))
    /\ UNCHANGED <<uq, env, threadVars, clientVars, throttleVars, dbVars, txn, nreq, created>>

\* the 303 response of a login reaches the client, which keeps the cookie
set_cookie(p) ==
    /\ pc[p] = "close"
    /\ resp[p].op = "login" /\ resp[p].status = 303
    /\ held' = resp[p].id[1]
    /\ loggedout' = FALSE
    /\ pc' = [pc EXCEPT ![p] = "idle"]
    /\ req' = [req EXCEPT ![p] = NULL]
    /\ resp' = [resp EXCEPT ![p] = NULL]
    /\ popped' = [popped EXCEPT ![p] = NULL]
    /\ UNCHANGED <<uq, env, threadVars, now, _login_attempts, dbVars, txn, nreq, created>>

\* time passes by half the token's life, or by a second
TokenTick ==
    /\ \E d \in IF (now - StartTime) % (max_age \div 2) = 0
                THEN {1, max_age \div 2} ELSE {max_age \div 2 - 1} :
          now' = now + d
    /\ now' <= StartTime + MaxTicks * (max_age \div 2) + 1
    /\ UNCHANGED <<uq, env, threadVars, clientVars, _login_attempts, popped, dbVars, pc, req, txn, resp, nreq, created>>

AdminStep(p) ==
    \/ \E cookie \in Cookies : admin_home(p, cookie)
    \/ admin_logout(p)
    \/ set_cookie(p)

LoginStep(p) ==
    \/ \E m \in LoginIn : admin_login_post_blocked(p, m)
    \/ admin_login_post_verify(p)
    \/ admin_login_post_failure(p)
    \/ admin_login_post_success(p)
    \/ close(p)

\* ------------------------------------------------------- specifications
\* the servers run with every variable of the environment set
NoRecords == \A p \in Procs : \A ip \in LoginKeys : _login_attempts[p][ip] = NULL
InitDeployed == Init /\ env = Deployed /\ NoRecords

\* every process, every handler
Next ==
    \/ \E p \in Procs : \/ AttemptStep(p)
                        \/ QuestionStep(p)
                        \/ SessionStep(p)
                        \/ LoginStep(p)
                        \/ AdminStep(p)
                        \/ FaultStep(p)
                        \/ \E cookie \in AdminCookies : \E m \in RecentIn :
                              mr_sessions_recent(p, cookie, m)
                        \/ \E op \in IngestOps : \E x_api_key \in ApiKeys :
                              ingest_rejected(p, op, x_api_key)
    \/ \E h \in Threads : ThreadStep(h)
    \/ Tick
    \/ TokenTick

Spec == InitDeployed /\ [][Next]_vars

\* attempts ingested by all processes concurrently
NextAttempts == \E p \in Procs : AttemptStep(p)

SpecAttempts == InitDeployed /\ [][NextAttempts]_vars

\* question events ingested by all processes concurrently
NextQuestions == \E p \in Procs : QuestionStep(p)

SpecQuestions == InitDeployed /\ [][NextQuestions]_vars

\* one server process: requests are served one after the other
NextSeq == AttemptStep(1) \/ QuestionStep(1)

SpecSeq == InitDeployed /\ [][NextSeq]_vars

\* one server process serves all the ingestion endpoints
NextIngest == AttemptStep(1) \/ QuestionStep(1) \/ SessionStep(1)

SpecIngest == InitDeployed /\ [][NextIngest]_vars

\* the start messages of one device and the end messages of one of its
\* sessions served by all processes concurrently
NextStarts ==
    \E p \in Procs :
       \/ \E m \in {x \in MRSessionStartIn : x.device_id = "d1"} :
             mr_session_start_execute(p, m)
       \/ mr_session_start_commit(p)
       \/ \E m \in {x \in MRSessionEndIn :
                       x.device_id = "d1" /\ x.client_session_id = 1} :
             mr_session_end_execute(p, m)
       \/ mr_session_end_commit(p)
       \/ close(p)

SpecStarts == InitDeployed /\ [][NextStarts]_vars

\* session messages served by one process, one after the other
NextSessions == SessionStep(1)

SpecSessions == InitDeployed /\ [][NextSessions]_vars

\* logins served by one process (the throttle is private to the process)
\* while time passes
NextLogin == LoginStep(1) \/ Tick

\* logins from one address, the admin pages and logout served by one process
\* over the life of a token, in every environment
NextToken ==
    \/ \E m \in {x \in LoginIn : x.client_ip = "1.2.3.4"} :
          admin_login_post_blocked(1, m)
    \/ admin_login_post_verify(1)
    \/ admin_login_post_failure(1)
    \/ admin_login_post_success(1)
    \/ close(1)
    \/ AdminStep(1)
    \/ TokenTick

InitToken == Init /\ uq /\ NoRecords

SpecToken == InitToken /\ [][NextToken]_vars

\* the four ingestion endpoints served by one process, requests with and
\* without a passing key, in every environment
NextGateway ==
    \/ AttemptStep(1)
    \/ QuestionStep(1)
    \/ SessionStep(1)
    \/ \E op \in IngestOps : \E x_api_key \in ApiKeys : ingest_rejected(1, op, x_api_key)

InitGateway ==
    Init /\ env.SESSION_SECRET_KEY # NULL /\ env.ADMIN_USERNAME = Some("admin") /\ NoRecords

SpecGateway == InitGateway /\ [][NextGateway]_vars

\* one process serves the ingestion endpoints while statements and commits
\* may fail
NextFaults ==
    \/ AttemptStep(1)
    \/ QuestionStep(1)
    \/ SessionStep(1)
    \/ FaultStep(1)

SpecFaults == InitDeployed /\ [][NextFaults]_vars

\* one process serves session messages and the list of recent sessions
NextRecent ==
    \/ SessionStep(1)
    \/ \E cookie \in AdminCookies : \E m \in RecentIn : mr_sessions_recent(1, cookie, m)

SpecRecent == InitDeployed /\ [][NextRecent]_vars

\* (no login touches the database: one schema stands for both)
InitLogin == InitDeployed /\ uq

SpecLogin == InitLogin /\ [][NextLogin]_vars

\* threads of one process call the throttle functions for one address while
\* time passes, starting with and without failures on record
NextThreads == (\E h \in Threads : ThreadStep(h)) \/ Tick

InitThreads == Init /\ env = Deployed /\ uq

SpecThreads == InitThreads /\ [][NextThreads]_vars

\* ------------------------------------------------------------- properties
\* a process is returning a response of handler op
Returning(p, op) == pc[p] = "close" /\ resp[p].op = op

AttemptRowsOf(key) == {r \in attempts : r.client_attempt_id = key}

QuestionRowsOf(device, key) ==
    {r \in events : r.device_id = device /\ r.client_attempt_id = key}

CreatedOf(table, scope, key) ==
    {c \in created : c.table = table /\ c.scope = scope /\ c.key = key}

\* C1 (as claimed): of the concurrent attempt submissions that carry the same
\* non-empty dedup key exactly one is created, every other one is answered
\* duplicate, and the table never holds two rows for the key.
C1_ExactlyOneCreated ==
    /\ \A k \in AttemptKeys :
         Truthy(k) => /\ Cardinality(AttemptRowsOf(k)) <= 1
                      /\ Cardinality(CreatedOf("attempts", NULL, k)) <= 1
    /\ \A p \in Procs :
         Returning(p, "attempt") /\ Truthy(req[p].client_attempt_id)
            => resp[p].status \in {"ok", "duplicate"}

\* C2: served one after the other, every submission of an attempt with a
\* non-empty dedup key is answered ok or duplicate with the id of the single
\* row stored for the key, which is the id the one ok response carried; ok is
\* given once per key, and at most one row per key is ever stored.
C2_SameAttemptIdTwice ==
    /\ \A k \in AttemptKeys :
         Truthy(k) => Cardinality(AttemptRowsOf(k)) <= 1
    /\ \A p \in Procs :
         Returning(p, "attempt") /\ Truthy(req[p].client_attempt_id)
            => LET k == req[p].client_attempt_id IN
               /\ resp[p].status \in {"ok", "duplicate"}
               /\ Cardinality(AttemptRowsOf(k)) = 1
               /\ Cardinality(CreatedOf("attempts", NULL, k)) = 1
               /\ \A r \in AttemptRowsOf(k) : resp[p].id = Some(r.id)
               /\ \A c \in CreatedOf("attempts", NULL, k) : resp[p].id = Some(c.id)

\* a retry is answered duplicate after another attempt was stored in between
C2_Witness ==
    \E p \in Procs :
       /\ Returning(p, "attempt")
       /\ resp[p].status = "duplicate"
       /\ Cardinality(attempts) = 2

\* C3: served one after the other, a question event whose (device_id, dedup
\* key) is already recorded is answered duplicate and adds no row, whatever
\* its client_session_id: the pair keeps exactly one row, and every stored
\* row stems from an ok response.
C3_QuestionDuplicateNoRow ==
    /\ Cardinality(events)
         = Cardinality({c \in created : c.table = "mr_question_events"})
    /\ \A p \in Procs :
         Returning(p, "question") /\ Truthy(req[p].client_attempt_id)
            => LET d == req[p].device_id
                   k == req[p].client_attempt_id IN
               /\ resp[p].status \in {"ok", "duplicate"}
               /\ Cardinality(QuestionRowsOf(d, k)) = 1
               /\ Cardinality(CreatedOf("mr_question_events", Some(d), k)) = 1
               /\ resp[p].status = "ok"
                    => \A r \in QuestionRowsOf(d, k) : resp[p].id = Some(r.id)

\* a duplicate whose client_session_id differs from the recorded event's
C3_Witness ==
    \E p \in Procs :
       /\ Returning(p, "question")
       /\ resp[p].status = "duplicate"
       /\ \E r \in QuestionRowsOf(req[p].device_id, req[p].client_attempt_id) :
            r.client_session_id # req[p].client_session_id

\* C4: a question event with a non-empty dedup key is refused (duplicate or
\* error) only when a row of its own device carries the key; rows of other
\* devices never make it collide, an ok response names a row of the request's
\* device and key, and ids are distinct.
C4_NoCrossDeviceCollision ==
    /\ \A r1, r2 \in events : r1.id = r2.id => r1 = r2
    /\ \A p \in Procs :
         Returning(p, "question") /\ Truthy(req[p].client_attempt_id)
            => LET own == QuestionRowsOf(req[p].device_id, req[p].client_attempt_id) IN
               IF resp[p].status = "ok"
               THEN \E r \in own : resp[p].id = Some(r.id)
               ELSE own # {}

\* the same key is stored for both devices, the later one just answered ok
C4_Witness ==
    /\ \E r1 \in QuestionRowsOf("d1", Some("Q1")) :
         \E r2 \in QuestionRowsOf("d2", Some("Q1")) : r1.id # r2.id
    /\ \E p \in Procs :
         /\ Returning(p, "question")
         /\ resp[p].status = "ok"
         /\ req[p].client_attempt_id = Some("Q1")
         /\ resp[p].id = Some(event_seq)
         /\ event_seq > 1

\* C5: a submission without dedup key (attempt or question event) is always
\* answered ok and has inserted a row of its own: the row carries the
\* request's fields and the newest id of the table's sequence.
C5_NoKeyNoIdempotency ==
    /\ \A r1, r2 \in attempts : r1.id = r2.id => r1 = r2
    /\ \A r1, r2 \in events : r1.id = r2.id => r1 = r2
    /\ \A p \in Procs :
         /\ Returning(p, "attempt") /\ req[p].client_attempt_id = NULL
              => /\ resp[p] = Response("attempt", "ok", Some(attempt_seq))
                 /\ [id |-> attempt_seq, client_attempt_id |-> NULL,
                     session_id |-> req[p].session_id] \in attempts
         /\ Returning(p, "question") /\ req[p].client_attempt_id = NULL
              => /\ resp[p] = Response("question", "ok", Some(event_seq))
                 /\ [id |-> event_seq, device_id |-> req[p].device_id,
                     client_session_id |-> req[p].client_session_id,
                     client_attempt_id |-> NULL] \in events

\* two attempts without key and with equal fields are both stored, and a
\* question event without key as well
C5_Witness ==
    /\ \E r1, r2 \in AttemptRowsOf(NULL) :
         r1.id # r2.id /\ r1.session_id = r2.session_id
    /\ QuestionRowsOf("d1", NULL) # {}
    /\ \E p \in Procs : pc[p] = "close" /\ req[p].client_attempt_id = NULL

StartColumns == {"mode", "difficulty", "count_target", "started_at_ms"}

\* C6: after any sequence of session messages every stored session holds, in
\* each of mode, difficulty, count_target and started_at_ms, the most recent
\* value other than NULL that a start message for it supplied (NULL if none
\* did): an absent incoming field never replaces a stored value.
C6_StartMergeNonDestructive ==
    \A r \in sessions :
       \A f \in StartColumns :
          r[f] = supplied[<<r.device_id, r.client_session_id>>][f]

\* start {mode: add, difficulty: null} then start {mode: null, difficulty:
\* hard} has left mode = add, difficulty = hard
C6_Witness ==
    \E p \in Procs :
       /\ Returning(p, "session_start")
       /\ req[p].mode = NULL
       /\ req[p].difficulty = Some("hard")
       /\ \E r \in SessionRows(sessions, req[p]) :
            r.mode = Some("add") /\ r.difficulty = Some("hard")

\* a step of the session-end handler of process p, serving message m
EndStep(p, m) ==
    \/ pc[p] = "idle" /\ pc'[p] = "session_end_commit" /\ m = req'[p]
    \/ pc[p] = "session_end_commit" /\ pc'[p] = "close" /\ m = req[p]

\* C7: a session-end message for a session without row changes no row and
\* creates none, and it is answered ok.
C7_EndWithoutRowNoOp ==
    [][\A p \in Procs : \A m \in MRSessionEndIn :
          EndStep(p, m) /\ SessionRows(sessions, m) = {}
             => /\ sessions' = sessions
                /\ pc'[p] = "close" => resp'[p] = Response("session_end", "ok", NULL)]_vars

\* an end message was answered ok, its session has no row, others have one
C7_Witness ==
    \E p \in Procs :
       /\ Returning(p, "session_end")
       /\ resp[p].status = "ok"
       /\ SessionRows(sessions, req[p]) = {}
       /\ sessions # {}

\* C8: when a session-end message has been applied, the row's ended_at_ms,
\* attempted, correct, avg_ms and duration_s are exactly the message's values,
\* NULL where the message has none, whatever was stored before.
C8_EndOverwrites ==
    \A p \in Procs :
       Returning(p, "session_end")
          => \A r \in SessionRows(sessions, req[p]) : Summary(r) = Summary(req[p])

\* an end message without attempted has replaced a stored attempted
C8_Witness ==
    \E p \in Procs :
       /\ Returning(p, "session_end")
       /\ req[p].attempted = NULL
       /\ \E r \in SessionRows(sessions, req[p]) :
            LET old == replaced[<<r.device_id, r.client_session_id>>] IN
            /\ r.attempted = NULL
            /\ old # NULL
            /\ old.attempted # NULL
            /\ old.avg_ms # NULL

\* the failure timestamps of a throttle entry, none for a missing entry
FailsOf(entry) == IF entry = NULL THEN <<>> ELSE entry.fails

\* the block of a throttle entry, 0 when there is none
BlockOf(entry) == IF entry = NULL THEN 0 ELSE entry.blocked_until

\* the timestamps not older than 15 minutes at time t
InWindow(fails, t) == SelectSeq(fails, LAMBDA ts : ts >= t - 15 * 60)

\* a block is in force only after 8 failures that lie within 15 minutes, and
\* 8 failures within 15 minutes leave a block for 15 minutes after the last
BlockedIffEightInWindow ==
    \A p \in Procs : \A ip \in LoginKeys :
       LET fails == FailsOf(_login_attempts[p][ip])
           until == BlockOf(_login_attempts[p][ip])
           n == Len(fails) IN
       /\ until # 0 => /\ n >= 8
                       /\ until = fails[n] + 15 * 60
                       /\ \A i \in 1..n : fails[i] >= fails[n] - 15 * 60
       /\ n >= 8 => \/ until = fails[n] + 15 * 60
                    \/ until = 0 /\ now >= fails[n] + 15 * 60
       /\ n >= 8 /\ now < fails[n] + 15 * 60
            => _is_login_blocked(_login_attempts[p], ip, now).blocked

\* C9: record_failure(key) keeps the key's timestamps not older than now minus
\* 15 minutes, appends now, sets blocked_until = now + 15 minutes whenever the
\* count reaches 8 and sets no block otherwise; a key with 8 failures within
\* 15 minutes is blocked, and a key is blocked only so.
C9_RecordFailureBlocksAtEight ==
    [][/\ BlockedIffEightInWindow'
       /\ \A p \in Procs :
            pc[p] = "login_failure" /\ pc'[p] = "close"
               => LET ip == req[p].client_ip
                      after == _login_attempts'[p][ip]
                      kept == InWindow(FailsOf(_login_attempts[p][ip]), now) IN
                  /\ after.fails = Append(kept, now)
                  /\ after.blocked_until =
                       IF Len(kept) + 1 >= 8 THEN now + 15 * 60 ELSE 0
                  /\ \A other \in LoginKeys \ {ip} :
                       _login_attempts'[p][other] = _login_attempts[p][other]]_vars

\* the 8th of eight failures spread over the window has just blocked the key
C9_Witness ==
    \E p \in Procs :
       /\ Returning(p, "login")
       /\ resp[p].status = 401
       /\ LET entry == _login_attempts[p][req[p].client_ip] IN
          /\ Len(entry.fails) = 8
          /\ entry.fails[1] > StartTime
          /\ entry.fails[1] < entry.fails[8]
          /\ entry.blocked_until = now + 15 * 60
          /\ _is_login_blocked(_login_attempts[p], req[p].client_ip, now).blocked

\* the key of a login request is blocked in the throttle of process p
BlockedNow(p, ip) == BlockOf(_login_attempts[p][ip]) > now

\* C10: whenever the credentials of a login request are about to be verified
\* or have been verified without the failure being recorded yet, the
\* request's key is not blocked; a request that arrives while its key is
\* blocked is answered 429 and never reaches the verification.
C10_BlockedNeverVerifies ==
    [][\A p \in Procs :
          /\ pc'[p] \in {"login_verify", "login_failure", "login_success"}
               => BlockOf(_login_attempts'[p][req'[p].client_ip]) <= now'
          /\ \A m \in LoginIn :
               pc[p] = "idle" /\ pc'[p] # "idle" /\ req'[p] = m
                             /\ BlockedNow(p, m.client_ip)
                  => pc'[p] = "close" /\ resp'[p] = Response("login", 429, NULL)]_vars

\* a request for a blocked key has been answered 429
C10_Witness ==
    \E p \in Procs :
       /\ Returning(p, "login")
       /\ resp[p].status = 429
       /\ BlockedNow(p, req[p].client_ip)

\* process p records a failure for key ip in this step
RecordsFailure(p, ip) == pc[p] = "login_failure" /\ req[p].client_ip = ip

\* C11: is_blocked(key) answers true exactly when the key has a record whose
\* blocked_until is set and lies strictly after now, and then changes nothing;
\* a set blocked_until that is due is reset to 0 by the check, the failure
\* timestamps are kept.  Only a recorded failure sets or extends a block, so
\* without one a key that is not blocked stays not blocked, and a block is
\* over 15 minutes after the failure that set it.
C11_IsBlockedLazyExpiry ==
    [][\A p \in Procs :
          /\ \A m \in LoginIn :
               pc[p] = "idle" /\ pc'[p] # "idle" /\ req'[p] = m
                  => LET ip == m.client_ip
                         entry == _login_attempts[p][ip]
                         isSet == entry # NULL /\ BlockOf(entry) # 0
                         answer == pc'[p] = "close" IN
                     /\ answer <=> (isSet /\ BlockOf(entry) > now)
                     /\ answer => resp'[p] = Response("login", 429, NULL)
                     /\ ~answer => pc'[p] = "login_verify"
                     /\ isSet /\ BlockOf(entry) <= now
                          => _login_attempts'[p] =
                               [_login_attempts[p] EXCEPT ![ip] =
                                  [fails |-> entry.fails, blocked_until |-> 0]]
                     /\ ~(isSet /\ BlockOf(entry) <= now)
                          => _login_attempts' = _login_attempts
          /\ \A ip \in LoginKeys :
               ~RecordsFailure(p, ip)
                  => /\ BlockOf(_login_attempts'[p][ip])
                          \in {0, BlockOf(_login_attempts[p][ip])}
                     /\ ~BlockedNow(p, ip)
                          => BlockOf(_login_attempts'[p][ip]) <= now'
          /\ \A ip \in LoginKeys :
               LET fails == FailsOf(_login_attempts'[p][ip]) IN
               BlockOf(_login_attempts'[p][ip]) > now'
                  => now' < fails[Len(fails)] + 15 * 60]_vars

\* the check has found the block of a key due at this very moment, reset it
\* and let the request through to the verification
C11_Witness ==
    \E p \in Procs :
       /\ pc[p] = "login_verify"
       /\ LET entry == _login_attempts[p][req[p].client_ip] IN
          /\ entry # NULL
          /\ Len(entry.fails) >= 8
          /\ entry.blocked_until = 0
          /\ entry.fails[Len(entry.fails)] + 15 * 60 = now

\* C12: a successful login removes the whole record of its key and leaves the
\* other keys alone, so the key is not blocked right afterwards; the first
\* failure recorded for a key without record starts a list of one timestamp
\* without block, and a block is only ever in force with 8 timestamps in the
\* record: 8 fresh failures within the window are needed to block again.
C12_ClearForgetsFailures ==
    [][\A p \in Procs :
          /\ pc[p] = "login_success" /\ pc'[p] = "close"
               => LET ip == req[p].client_ip IN
                  /\ _login_attempts'[p][ip] = NULL
                  /\ ~_is_login_blocked(_login_attempts'[p], ip, now').blocked
                  /\ \A other \in LoginKeys \ {ip} :
                       _login_attempts'[p][other] = _login_attempts[p][other]
          /\ pc[p] = "login_verify" /\ pc'[p] # "login_verify" /\ req[p].is_valid
               => pc'[p] = "login_success"
          /\ pc[p] = "login_failure" /\ pc'[p] = "close"
                /\ _login_attempts[p][req[p].client_ip] = NULL
               => _login_attempts'[p][req[p].client_ip] =
                     [fails |-> <<now>>, blocked_until |-> 0]
          /\ \A ip \in LoginKeys :
               BlockOf(_login_attempts'[p][ip]) > now'
                  => Len(FailsOf(_login_attempts'[p][ip])) >= 8]_vars

\* a successful login has just removed a record holding 7 failures of the
\* running window
C12_Witness ==
    \E p \in Procs :
       /\ Returning(p, "login")
       /\ resp[p].status = 303
       /\ popped[p] # NULL
       /\ Len(InWindow(popped[p].fails, now)) = 7
       /\ _login_attempts[p][req[p].client_ip] = NULL

\* principals a token can be made for
Usernames == {"admin", "bob"}

\* C13: the token a successful login hands out is accepted by verify at the
\* moment of its issuance and carries the expected principal; with secret and
\* expected principal set, verify(issue(u)) accepts exactly the token of the
\* expected principal.
C13_TokenRoundTrip ==
    [][/\ \A p \in Procs :
            pc[p] = "login_success" /\ pc'[p] = "close" /\ resp'[p].status = 303
               => /\ resp'[p].id = create_admin_session_token(env.ADMIN_USERNAME[1], now')
                  /\ resp'[p].id[1].payload = <<"u", env.ADMIN_USERNAME[1]>>
                  /\ verify_admin_session_token(resp'[p].id[1], now') = "True"
                  /\ require_admin(resp'[p].id, now') = 200
       /\ \A u \in Usernames :
            Truthy(env.SESSION_SECRET_KEY) /\ Truthy(env.ADMIN_USERNAME)
               => LET token == create_admin_session_token(u, now') IN
                  /\ token # NULL
                  /\ verify_admin_session_token(token[1], now') = "True"
                        <=> u = env.ADMIN_USERNAME[1]]_vars

\* a login has just handed out a token, and verify accepts it
C13_Witness ==
    \E p \in Procs :
       /\ Returning(p, "login")
       /\ resp[p].status = 303
       /\ resp[p].id[1].timestamp = now
       /\ now > StartTime
       /\ verify_admin_session_token(resp[p].id[1], now) = "True"

\* C14: verify rejects every token whose embedded issue time lies more than
\* 7 days before now, whoever signed it: a request that presents one is
\* redirected to the login page; and a token that verify rejects now is
\* rejected at every later time.
C14_TokenExpiry ==
    [][/\ \A cookie \in Cookies' :
            cookie # NULL /\ now' - cookie[1].timestamp > 60 * 60 * 24 * 7
               => /\ verify_admin_session_token(cookie[1], now') = "False"
                  /\ require_admin(cookie, now') = 303
       /\ \A p \in Procs :
            pc[p] = "idle" /\ pc'[p] = "close" /\ resp'[p].op = "admin"
               => /\ resp'[p].status = require_admin(req'[p].cookie, now)
                  /\ req'[p].cookie # NULL
                        /\ now - req'[p].cookie[1].timestamp > 60 * 60 * 24 * 7
                       => resp'[p].status = 303
       /\ \A cookie \in Cookies :
            cookie # NULL /\ verify_admin_session_token(cookie[1], now) = "False"
               => verify_admin_session_token(cookie[1], now') = "False"]_vars

\* the kept token is presented one second after the 7 days and is rejected
C14_Witness ==
    \E p \in Procs :
       /\ Returning(p, "admin")
       /\ env = Deployed
       /\ held # NULL
       /\ req[p].cookie = Some(held)
       /\ now - held.timestamp = 60 * 60 * 24 * 7 + 1
       /\ resp[p].status = 303

\* the token is what the configured server issues for the expected principal,
\* and it is not older than 7 days at time t
Genuine(token, t) ==
    /\ Truthy(env.SESSION_SECRET_KEY) /\ Truthy(env.ADMIN_USERNAME)
    /\ Some(token) = create_admin_session_token(env.ADMIN_USERNAME[1], token.timestamp)
    /\ t - token.timestamp <= 60 * 60 * 24 * 7

\* C15: verify answers True for the genuine tokens and one and the same False
\* for every other token (wrong signature, no token at all in the string,
\* expired, other principal, payload that is no dict), never an exception;
\* a request with a failing cookie or without cookie always gets the same
\* redirect to the login page.
C15_UniformInvalid ==
    [][/\ \A cookie \in Cookies' \ {NULL} :
            /\ verify_admin_session_token(cookie[1], now')
                  = IF Genuine(cookie[1], now') THEN "True" ELSE "False"
            /\ require_admin(cookie, now')
                  = IF Genuine(cookie[1], now') THEN 200 ELSE 303
       /\ require_admin(NULL, now') = 303
       /\ held' # NULL =>
             \A token \in (Tampered(held', now') \cup Foreign(now')) \ {held'} :
                verify_admin_session_token(token, now') = "False"
       /\ \A p \in Procs :
            pc[p] = "idle" /\ pc'[p] = "close" /\ resp'[p].op = "admin"
               => resp'[p] =
                    IF req'[p].cookie # NULL /\ Genuine(req'[p].cookie[1], now)
                    THEN Response("admin", 200, NULL)
                    ELSE Response("admin", 303, NULL)]_vars

\* a kept token that verify still accepts was presented with its signature
\* changed, and the request was redirected
C15_Witness ==
    \E p \in Procs :
       /\ Returning(p, "admin")
       /\ resp[p].status = 303
       /\ held # NULL
       /\ verify_admin_session_token(held, now) = "True"
       /\ req[p].cookie # NULL
       /\ req[p].cookie[1] = [held EXCEPT !.sig = req[p].cookie[1].sig]
       /\ req[p].cookie[1].sig # held.sig

\* C16: whatever was served since (logout, further logins, failed logins,
\* blocks of the throttle), the token that a successful login handed out is
\* accepted at every time up to 7 days after its issuance, and a request that
\* presents it is let in.
C16_TokenNeverRevoked ==
    [][/\ held' # NULL /\ now' - held'.timestamp <= 60 * 60 * 24 * 7
            => /\ verify_admin_session_token(held', now') = "True"
               /\ require_admin(Some(held'), now') = 200
       /\ \A p \in Procs :
            pc[p] = "idle" /\ pc'[p] = "close" /\ resp'[p].op = "admin"
               /\ held # NULL /\ req'[p].cookie = Some(held)
               /\ now - held.timestamp <= 60 * 60 * 24 * 7
               => resp'[p].status = 200
       /\ \A p \in Procs :
            pc'[p] = "close" /\ resp'[p].op = "logout"
               => /\ env' = env
                  /\ _login_attempts' = _login_attempts
                  /\ held' = held]_vars

\* exactly 7 days after its issuance, after a logout and while the throttle
\* blocks the address, the kept token has let a request in
C16_Witness ==
    \E p \in Procs :
       /\ Returning(p, "admin")
       /\ resp[p].status = 200
       /\ held # NULL
       /\ req[p].cookie = Some(held)
       /\ now - held.timestamp = 60 * 60 * 24 * 7
       /\ loggedout
       /\ BlockedNow(p, "1.2.3.4")

\* C17 (as claimed): a request to an ingestion endpoint whose X-API-Key is
\* missing or is not the configured secret is answered 401, whatever the
\* endpoint and the key, and leaves attempts, sessions and question events as
\* they were.
C17_UnauthorizedUniform ==
    [][\A p \in Procs :
          pc[p] = "idle" /\ pc'[p] # "idle" /\ "x_api_key" \in DOMAIN req'[p]
             /\ req'[p].x_api_key # env.INGEST_API_KEY
             => /\ pc'[p] = "close"
                /\ resp'[p].status = 401
                /\ <<attempts, events, sessions>>' = <<attempts, events, sessions>>]_vars

\* C18: when a statement or the commit of an ingestion handler fails, the
\* tables are what they were before the request (nothing the handler wrote
\* stays), nothing is reported created and the caller gets an error, not ok
\* or duplicate; afterwards the dedup key is still free, so the retry is not
\* answered duplicate but inserts its row, and a key never has two rows.
C18_FailureRollsBack ==
    [][\A p \in Procs :
          /\ pc'[p] = "close" /\ pc[p] # "close" /\ resp'[p].status = "error"
               => /\ attempts' = attempts /\ events' = events /\ sessions' = sessions
                  /\ txn'[p] = NULL
                  /\ created' = created
                  /\ \A q \in Procs : txn'[q] = NULL
          /\ pc[p] = "idle" /\ pc'[p] = "close" /\ resp'[p].status = "duplicate"
               => IF resp'[p].op = "attempt"
                  THEN AttemptRowsOf(req'[p].client_attempt_id) # {}
                  ELSE QuestionRowsOf(req'[p].device_id, req'[p].client_attempt_id) # {}
          /\ pc[p] = "attempt_commit" /\ pc'[p] = "close" /\ resp'[p].status = "ok"
               => /\ Cardinality(attempts') = Cardinality(attempts) + 1
                  /\ Truthy(req[p].client_attempt_id)
                       => Cardinality({r \in attempts' :
                             r.client_attempt_id = req[p].client_attempt_id}) = 1
          /\ pc[p] = "question_commit" /\ pc'[p] = "close" /\ resp'[p].status = "ok"
               => /\ Cardinality(events') = Cardinality(events) + 1
                  /\ Truthy(req[p].client_attempt_id)
                       => Cardinality({r \in events' :
                             /\ r.device_id = req[p].device_id
                             /\ r.client_attempt_id = req[p].client_attempt_id}) = 1]_vars

\* the commit of the first attempt with key X failed and left no row; the
\* retry was answered ok and its row, with the next id, is the only one
C18_Witness ==
    \E p \in Procs :
       /\ Returning(p, "attempt")
       /\ resp[p] = Response("attempt", "ok", Some(2))
       /\ req[p].client_attempt_id = Some("X")
       /\ nreq = 2
       /\ Cardinality(attempts) = 1
       /\ \A r \in attempts : r.id = 2 /\ r.client_attempt_id = Some("X")

\* the sessions a listing with the given device filter is about
Listed(device_id) ==
    {r \in sessions : device_id \notin {NULL, Some("")} => r.device_id = device_id[1]}

\* C19: the list of recent sessions names only sessions of the device asked
\* for (all sessions without filter), each once, and is as long as limit
\* allows: min(limit, number of such sessions) rows; the start times in it
\* descend, and no session left out started later than a listed one.
C19_RecentSessionsOrdered ==
    [][\A p \in Procs :
          pc[p] = "idle" /\ pc'[p] = "close" /\ resp'[p].op = "recent"
             /\ resp'[p].status = 200
             => LET rows == resp'[p].id
                    limit == req'[p].limit
                    all == Listed(req'[p].device_id)
                    key(r) == <<r.device_id, r.client_session_id>>
                    keys == {key(rows[i]) : i \in 1..Len(rows)} IN
                /\ Len(rows) <= limit
                /\ Len(rows) = IF limit < Cardinality(all) THEN limit
                                ELSE Cardinality(all)
                /\ \A i \in 1..Len(rows) :
                     \E r \in all : /\ key(r) = key(rows[i])
                                     /\ r.started_at_ms = rows[i].started_at_ms
                /\ \A i, j \in 1..Len(rows) : i # j => key(rows[i]) # key(rows[j])
                /\ \A i, j \in 1..Len(rows) :
                     /\ i < j
                     /\ rows[i].started_at_ms # NULL
                     /\ rows[j].started_at_ms # NULL
                     => rows[i].started_at_ms[1] >= rows[j].started_at_ms[1]
                /\ \A r \in all : \A i \in 1..Len(rows) :
                     /\ key(r) \notin keys
                     /\ r.started_at_ms # NULL
                     /\ rows[i].started_at_ms # NULL
                     => r.started_at_ms[1] <= rows[i].started_at_ms[1]]_vars

\* sessions started at 10, 30 and 20 are listed in the order 30, 20, 10
C19_Witness ==
    \E p \in Procs :
       /\ Returning(p, "recent")
       /\ resp[p].status = 200
       /\ Len(resp[p].id) = 3
       /\ resp[p].id[1].started_at_ms = Some(30)
       /\ resp[p].id[2].started_at_ms = Some(20)
       /\ resp[p].id[3].started_at_ms = Some(10)
       /\ resp[p].id[3].client_session_id = 1 /\ resp[p].id[3].device_id = "d1"
       /\ resp[p].id[1].client_session_id = 2

\* C20 (as claimed): when the INSERT of an attempt violates the uniqueness
\* constraint on its dedup key, because another request has stored the key
\* since this one looked it up, the request is answered duplicate with the id
\* of the stored row, as a retry would be.
C20_ViolationAnsweredDuplicate ==
    [][\A p \in Procs :
          /\ pc[p] = "attempt_insert"
          /\ pc'[p] = "close"
          /\ AttemptClash(attempts, req[p].client_attempt_id)
          /\ Truthy(req[p].client_attempt_id)
          => /\ resp'[p].status = "duplicate"
             /\ \E r \in AttemptRowsOf(req[p].client_attempt_id) :
                   resp'[p].id = Some(r.id)]_vars

\* C21 (as claimed): when is_blocked(key) or record_failure(key) has been
\* called and has returned, every timestamp stored in the failure list of the
\* key is not older than now minus 15 minutes.
C21_StoredFailsInWindow ==
    [][\A p \in Procs :
          \/ pc[p] = "idle" /\ pc'[p] \in {"close", "login_verify"}
                            /\ req'[p] \in LoginIn
          \/ pc[p] = "login_failure" /\ pc'[p] = "close"
          => LET fails == FailsOf(_login_attempts'[p][req'[p].client_ip]) IN
             \A i \in 1..Len(fails) : fails[i] >= now' - 15 * 60]_vars

\* the positions of a thread inside a with _login_attempts_lock block
Inside == {"blocked_body", "record_read", "record_write", "clear_body"}

\* C22: the throttle calls of concurrent threads exclude each other: at most
\* one thread is inside a with block, and while it is there no other thread
\* changes the throttle map, so the list that record_failure writes is the
\* list stored at that moment without its timestamps older than the window,
\* plus the new one (no failure of a concurrent call is lost), and the write
\* that makes the list 8 long sets the block.
C22_ThrottleCallsExclusive ==
    [][/\ Cardinality({h \in Threads : threads'[h].at \in Inside}) <= 1
       /\ \A h \in Threads :
            /\ threads'[h].at \in Inside => _login_attempts_lock' = Some(h)
            /\ threads[h].at \in Inside /\ threads'[h] = threads[h]
                  => _login_attempts' = _login_attempts
            /\ threads[h].at = "record_write" /\ threads'[h].at = "idle"
                  => LET ip == threads[h].m.client_ip
                         t == threads[h].now
                         before == _login_attempts[1][ip]
                         after == _login_attempts'[1][ip]
                         kept == SelectSeq(FailsOf(before),
                                           LAMBDA ts : ts >= t - 15 * 60) IN
                     /\ after.fails = Append(kept, t)
                     /\ after.blocked_until =
                          IF Len(kept) + 1 >= 8 THEN t + 15 * 60
                          ELSE BlockOf(before)]_vars

\* a thread is about to write the 8th failure of the window and the block
\* while another thread, that passed the check before, waits at the lock to
\* record its own failure
C22_Witness ==
    \E g \in Threads : \E h \in Threads \ {g} :
       /\ threads[g].at = "record_write"
       /\ Len(threads[g].entry.fails) = 8
       /\ threads[g].entry.blocked_until = threads[g].now + 15 * 60
       /\ threads[h].at = "record_lock"
       /\ threads[h].m.client_ip = threads[g].m.client_ip
       /\ _login_attempts_lock = Some(g)

\* C23: rows of attempts and of mr_question_events are write-once: every
\* step keeps every stored row as it is (no row is deleted or changed, an id
\* never names two rows), and a dedup key that has a row keeps exactly that
\* one row, whatever is submitted afterwards.
C23_RowsWriteOnce ==
    [][/\ attempts \subseteq attempts'
       /\ events \subseteq events'
       /\ \A a \in attempts' : \A b \in attempts' : a.id = b.id => a = b
       /\ \A a \in events' : \A b \in events' : a.id = b.id => a = b
       /\ \A k \in AttemptKeys :
            Truthy(k) /\ AttemptRowsOf(k) # {}
               => /\ Cardinality(AttemptRowsOf(k)) = 1
                  /\ AttemptRowsOf(k)' = AttemptRowsOf(k)
       /\ \A d \in DeviceIds : \A k \in QuestionKeys :
            Truthy(k) /\ QuestionRowsOf(d, k) # {}
               => /\ Cardinality(QuestionRowsOf(d, k)) = 1
                  /\ QuestionRowsOf(d, k)' = QuestionRowsOf(d, k)]_vars

\* a retry of a stored attempt is being answered duplicate with the id of
\* the one row of its key, after a session message was stored in between
C23_Witness ==
    /\ Returning(1, "attempt")
    /\ resp[1].status = "duplicate"
    /\ sessions # {}
    /\ \E r \in attempts :
          /\ r.client_attempt_id = req[1].client_attempt_id
          /\ resp[1].id = Some(r.id)
          /\ AttemptRowsOf(r.client_attempt_id) = {r}

\* C24: whatever the interleaving of the processes serving session messages,
\* a (device_id, client_session_id) pair has at most one row, every start
\* request is answered ok, a start field that a committed start request of
\* the pair supplied is not NULL in the pair's row, and no step removes the
\* row of a pair.
C24_ConcurrentStartsOneRow ==
    [][/\ \A k \in SessionIds :
            LET rows == {r \in sessions' : <<r.device_id, r.client_session_id>> = k} IN
            /\ Cardinality(rows) <= 1
            /\ \A f \in StartColumns :
                 supplied'[k][f] # NULL => \E r \in rows : r[f] # NULL
       /\ \A p \in Procs :
            /\ pc[p] = "session_start_commit" /\ pc'[p] # "session_start_commit"
                 => /\ pc'[p] = "close"
                    /\ resp'[p] = Response("session_start", "ok", NULL)
                    /\ SessionRows(sessions', req[p]) # {}
       /\ \A r \in sessions : SessionRows(sessions', r) # {}]_vars

\* two processes are answering start requests for the same pair at the same
\* time, each supplied what the other left out, and the one row has both
C24_Witness ==
    \E p \in Procs : \E q \in Procs \ {p} :
       /\ Returning(p, "session_start") /\ Returning(q, "session_start")
       /\ req[p].device_id = req[q].device_id
       /\ req[p].client_session_id = req[q].client_session_id
       /\ req[p].mode # NULL /\ req[q].mode = NULL
       /\ req[p].difficulty = NULL /\ req[q].difficulty # NULL
       /\ \E r \in SessionRows(sessions, req[p]) :
             /\ SessionRows(sessions, req[p]) = {r}
             /\ r.mode = req[p].mode
             /\ r.difficulty = req[q].difficulty

\* the start columns of a session row
Started(r) ==
    [mode |-> r.mode, difficulty |-> r.difficulty,
     count_target |-> r.count_target, started_at_ms |-> r.started_at_ms]

\* C25: the step in which a session-start request is applied leaves
\* ended_at_ms, attempted, correct, avg_ms and duration_s of every stored row
\* as they are, and the step in which a session-end request is applied
\* leaves mode, difficulty, count_target and started_at_ms of every stored
\* row as they are; a start applied after the end keeps the summary.
C25_StartEndDisjointFields ==
    [][\A p \in Procs :
          /\ pc[p] = "session_start_commit" /\ pc'[p] = "close"
               => \A r \in sessions :
                     \E after \in SessionRows(sessions', r) : Summary(after) = Summary(r)
          /\ pc[p] = "session_end_commit" /\ pc'[p] = "close"
               => \A r \in sessions :
                     \E after \in SessionRows(sessions', r) : Started(after) = Started(r)]_vars

\* a start retry that supplies a mode is being answered for a session whose
\* first start and end message were applied before: the row has the mode, the
\* difficulty of the first start and the summary
C25_Witness ==
    \E p \in Procs :
       /\ Returning(p, "session_start")
       /\ req[p].mode # NULL
       /\ \E r \in SessionRows(sessions, req[p]) :
             /\ r.mode = req[p].mode
             /\ req[p].difficulty = NULL /\ r.difficulty # NULL
             /\ r.ended_at_ms # NULL
             /\ r.correct # NULL

====
